---- MODULE Spec2Model ----
(***************************************************************************)
(* Model of tools/4th_axis_post_processor/gcode_parser.py: the streaming   *)
(* G-code motion tracker (parse_gcode_points_extrude), the 2D parser       *)
(* (parse_gcode_points), the corner-adaptive resampler with its batcher    *)
(* (batch_points_for_spline) and the point collector                       *)
(* (collect_sparse_points) in raw and in sparse mode.                      *)
(*                                                                         *)
(* A source line is modelled after tokenisation: its command word, its     *)
(* axis words in textual order and its comment text.  A coordinate is an   *)
(* exact rational (the code computes in IEEE doubles; the inputs used here *)
(* are small integers, for which the comparisons the code makes agree).    *)
(***************************************************************************)
EXTENDS Integers, Sequences, FiniteSets, TLC

VARIABLES
    file,             \* the source lines read so far, in file order
    pc,               \* "read": at the parser's `for raw in fh`; "push": inside a
                      \* resampler step, points still to push; "done": returned
    \* parse_gcode_points_extrude: the generator's locals
    mode_absolute, e_absolute, cur_x, cur_y, cur_z, cur_e, last_e, e_offset,
    extruding_state,
    \* collect_sparse_points(raw=True): the four lists
    xs, ys, zs, es,
    \* the arguments of collect_sparse_points / batch_points_for_spline
    max_points, batch_size, angle_threshold_deg, corner_density,
    straight_sample_dist,
    \* parse_gcode_points: the generator's locals
    g_mode_absolute, g_cur_x, g_cur_y,
    points,           \* every point parse_gcode_points has yielded, in order
    \* batch_points_for_spline: the rolling window and the buffer
    prev2, prev1, batch,
    pending,          \* the points the current resampler step has still to push
    pushed,           \* every point pushed so far, in order
    batches,          \* every batch yielded so far, in order
    \* collect_sparse_points(raw=False): the loop's locals and the result
    total, kept, out_x, out_y,
    sizes             \* len(kept) at the end of each iteration of the collector's loop

trackerVars == <<mode_absolute, e_absolute, cur_x, cur_y, cur_z, cur_e, last_e,
                 e_offset, extruding_state>>
rawVars == <<xs, ys, zs, es>>
argVars == <<max_points, batch_size, angle_threshold_deg, corner_density,
             straight_sample_dist>>
parserVars == <<g_mode_absolute, g_cur_x, g_cur_y, points>>
batcherVars == <<prev2, prev1, batch, pending, pushed, batches>>
collectorVars == <<total, kept, out_x, out_y, sizes>>
vars == <<file, pc, trackerVars, rawVars, argVars, parserVars, batcherVars,
          collectorVars>>

(***************************************************************************)
(* Bounds and inputs                                                       *)
(***************************************************************************)
\* longest file read
MaxLines == 3

\* an axis word: its letter, its value, and whether its numeric text matches
\* COORD_RE's number pattern
W(l, v) == [l |-> l, v |-> v, ok |-> TRUE]
BadW(l) == [l |-> l, v |-> 0, ok |-> FALSE]
\* a comment: its style ("(" parenthesized, ";" to the end of the line, "" for
\* no comment) and the command word and axis words written inside it
Cm(style, cmd, args) == [style |-> style, cmd |-> cmd, args |-> args]
NoComment == Cm("", "", << >>)
\* a source line: command word, axis words, comment
L(cmd, args) == [cmd |-> cmd, args |-> args, comment |-> NoComment]
LC(cmd, args, comment) == [cmd |-> cmd, args |-> args, comment |-> comment]

\* the lines a file is made of
Lines ==
    { L("G1", <<W("X", 5)>>),
      L("G1", <<W("Y", 3)>>),
      L("G1", <<W("X", 1)>>),
      L("G1", <<W("X", 1), W("E", 1)>>),
      L("G1", <<W("X", 2), W("E", 2)>>),
      L("G1", <<W("X", 1), W("E", -1)>>),
      L("G1", <<W("E", 5)>>),
      L("G1", << >>),
      L("G0", <<W("Z", 1)>>),
      L("G00", <<W("X", 2), W("Y", 1), W("Z", 2)>>),
      L("G01", <<W("Y", 0), W("E", 0)>>),
      L("G1", <<BadW("X"), W("Y", 1)>>),
      L("M82", << >>),
      L("M83", << >>),
      L("G90", << >>),
      L("G91", << >>),
      L("G92", <<W("E", 0)>>),
      L("G92", <<W("X", 0), W("Y", 0)>>),
      L("G92", <<W("Z", 2), W("E", 1)>>),
      L("G2", <<W("X", 1), W("Y", 1)>>),
      L("G1", <<W("X", 1), W("E", 5)>>),
      L("G1", <<W("X", 2), W("E", 1)>>),
      L("G1", <<BadW("Z")>>),
      LC("G1", <<W("X", 5)>>, Cm(";", "", <<W("Y", 7)>>)),
      LC("G1", <<W("Y", 3)>>, Cm("(", "", <<W("X", 2), W("E", 2)>>)),
      LC("", << >>, Cm(";", "G1", <<W("X", 5)>>)) }

(***************************************************************************)
(* Line tokenizer                                                          *)
(***************************************************************************)
\* a variant that leaves the comment's words in the line
strip_comments_Kept(raw) ==
    [cmd |-> raw.cmd, args |-> raw.args \o raw.comment.args]

\* COMMENT_RE.sub("", line).strip(): the comment text is removed
strip_comments(raw) == [cmd |-> raw.cmd, args |-> raw.args]

\* `not line`: nothing is left of the line
IsBlank(line) == line.cmd = "" /\ line.args = << >>

\* line.startswith(prefix), on the command word
startswith(line, prefix) == line.cmd = prefix

\* a variant that takes G92 for a motion command
MOVE_CMD_RE_G92(line) == line.cmd \in {"G0", "G1", "G00", "G01", "G92"}

\* a variant that also takes the arc commands of ARC_CMD_RE for motion lines
MOVE_CMD_RE_Arcs(line) == line.cmd \in {"G0", "G1", "G00", "G01", "G2", "G3", "G02", "G03"}

\* MOVE_CMD_RE.search(line)
MOVE_CMD_RE(line) == line.cmd \in {"G0", "G1", "G00", "G01"}

\* the index of the last well-formed word of letter l
LastWord(args, l) ==
    CHOOSE i \in DOMAIN args :
        /\ args[i].ok /\ args[i].l = l
        /\ \A j \in DOMAIN args : (args[j].ok /\ args[j].l = l) => j <= i

\* a variant that reads a word whose number does not match as the value 0
parse_coords_Lenient(line) ==
    [l \in {line.args[i].l : i \in DOMAIN line.args}
        |-> LET last == CHOOSE i \in DOMAIN line.args :
                            /\ line.args[i].l = l
                            /\ \A j \in DOMAIN line.args : line.args[j].l = l => j <= i
            IN  line.args[last].v]

\* _parse_coords: the dict letter -> value, a later word overwriting an earlier
parse_coords(line) ==
    [l \in {line.args[i].l : i \in {j \in DOMAIN line.args : line.args[j].ok}}
        |-> line.args[LastWord(line.args, l)].v]

\* "A" in coords
Found(coords, a) == a \in DOMAIN coords

(***************************************************************************)
(* Motion-state tracker: parse_gcode_points_extrude                        *)
(***************************************************************************)
\* a variant in which an axis the line omits leaps to the origin
SetAxis_Origin(cur, coords, a) == IF Found(coords, a) THEN coords[a] ELSE 0

\* `if x_found: cur_x = coords["X"]` (and likewise Y, Z)
SetAxis(cur, coords, a) == IF Found(coords, a) THEN coords[a] ELSE cur

\* a variant that adds the word to the axis while mode_absolute is false
MoveAxis_Relative(mabs, cur, coords, a) ==
    IF ~Found(coords, a) THEN cur
    ELSE IF mabs THEN coords[a] ELSE cur + coords[a]

\* X, Y, Z of a motion line: the code never reads mode_absolute here
MoveAxis(mabs, cur, coords, a) == SetAxis(cur, coords, a)

\* a variant in which G92 leaves the axis alone
ResetAxis_Ignored(cur, coords, a) == cur

\* `if "E" in coords: cur_e = coords["E"]` (and likewise Z) of the G92 branch
ResetAxis(cur, coords, a) == IF Found(coords, a) THEN coords[a] ELSE cur

\* a variant that yields for any axis word, E included
Yields_AnyWord(coords) ==
    Found(coords, "X") \/ Found(coords, "Y") \/ Found(coords, "Z") \/ Found(coords, "E")

\* `if x_found or y_found or z_found`
Yields(coords) == Found(coords, "X") \/ Found(coords, "Y") \/ Found(coords, "Z")

\* a variant that overwrites cur_e also under relative extrusion
MoveE_Overwrite(eabs, cur, coords) ==
    IF ~Found(coords, "E") THEN cur ELSE coords["E"]

\* cur_e after a motion line
MoveE(eabs, cur, coords) ==
    IF ~Found(coords, "E") THEN cur
    ELSE IF eabs THEN coords["E"] ELSE cur + coords["E"]

\* a variant that leaves the flag alone on a line that emits nothing
MoveExtruding_Emitting(eabs, prev_e, ext, coords) ==
    IF ~Found(coords, "E") \/ ~Yields(coords) THEN ext
    ELSE IF eabs THEN (IF coords["E"] > prev_e THEN 1 ELSE 0)
         ELSE (IF coords["E"] > 0 THEN 1 ELSE 0)

\* a variant whose flag falls back to 0 on a motion line without E
MoveExtruding_Momentary(eabs, prev_e, ext, coords) ==
    IF ~Found(coords, "E") THEN 0
    ELSE IF eabs THEN (IF coords["E"] > prev_e THEN 1 ELSE 0)
         ELSE (IF coords["E"] > 0 THEN 1 ELSE 0)

\* a variant whose absolute comparison is not strict
MoveExtruding_NotStrict(eabs, prev_e, ext, coords) ==
    IF ~Found(coords, "E") THEN ext
    ELSE IF eabs THEN (IF coords["E"] >= prev_e THEN 1 ELSE 0)
         ELSE (IF coords["E"] > 0 THEN 1 ELSE 0)

\* extruding_state after a motion line; prev_e is cur_e before the line
MoveExtruding(eabs, prev_e, ext, coords) ==
    IF ~Found(coords, "E") THEN ext
    ELSE IF eabs THEN (IF coords["E"] > prev_e THEN 1 ELSE 0)
         ELSE (IF coords["E"] > 0 THEN 1 ELSE 0)

\* the locals of parse_gcode_points_extrude before any line is read
extrude_init ==
    [mode_absolute |-> TRUE, e_absolute |-> TRUE,
     cur_x |-> 0, cur_y |-> 0, cur_z |-> 0, cur_e |-> 0,
     last_e |-> 0, e_offset |-> 0, extruding_state |-> 0]

\* one iteration of `for raw in fh`: the locals after the line and the samples
\* it yields (none or one <<x, y, z, extruding>>)
extrude_line(st, raw) ==
    LET line == strip_comments(raw)
        coords == parse_coords(line)
        isG92 == /\ ~startswith(line, "G90") /\ ~startswith(line, "G91")
                 /\ ~startswith(line, "M82") /\ ~startswith(line, "M83")
                 /\ startswith(line, "G92")
        \* the state after the if/elif chain
        mabs == IF startswith(line, "G90") THEN TRUE
                ELSE IF startswith(line, "G91") THEN FALSE ELSE st.mode_absolute
        eabs == IF startswith(line, "G90") \/ startswith(line, "G91") THEN st.e_absolute
                ELSE IF startswith(line, "M82") THEN TRUE
                ELSE IF startswith(line, "M83") THEN FALSE ELSE st.e_absolute
        e1 == IF isG92 THEN ResetAxis(st.cur_e, coords, "E") ELSE st.cur_e
        z1 == IF isG92 THEN ResetAxis(st.cur_z, coords, "Z") ELSE st.cur_z
        move == MOVE_CMD_RE(line)
        x2 == IF move THEN MoveAxis(mabs, st.cur_x, coords, "X") ELSE st.cur_x
        y2 == IF move THEN MoveAxis(mabs, st.cur_y, coords, "Y") ELSE st.cur_y
        z2 == IF move THEN MoveAxis(mabs, z1, coords, "Z") ELSE z1
        e2 == IF move THEN MoveE(eabs, e1, coords) ELSE e1
        ext2 == IF move THEN MoveExtruding(eabs, e1, st.extruding_state, coords)
                ELSE st.extruding_state
    IN  IF IsBlank(line) THEN [st |-> st, out |-> << >>]
        ELSE [st |-> [mode_absolute |-> mabs, e_absolute |-> eabs,
                      cur_x |-> x2, cur_y |-> y2, cur_z |-> z2, cur_e |-> e2,
                      last_e |-> IF move THEN e2
                                 ELSE IF isG92 /\ Found(coords, "E") THEN e1
                                 ELSE st.last_e,
                      e_offset |-> IF isG92 /\ Found(coords, "E") THEN e1
                                   ELSE st.e_offset,
                      extruding_state |-> ext2],
              out |-> IF move /\ Yields(coords)
                      THEN << <<x2, y2, z2, ext2>> >> ELSE << >>]

(***************************************************************************)
(* Exact rationals <<numerator, denominator>>, in lowest terms with a      *)
(* positive denominator, for the coordinates the resampler interpolates    *)
(***************************************************************************)
Abs(n) == IF n < 0 THEN -n ELSE n

RECURSIVE Gcd(_, _)
Gcd(a, b) == IF b = 0 THEN a ELSE Gcd(b, a % b)

Frac(n, d) ==
    LET g == Gcd(Abs(n), Abs(d))
        sgn == IF d < 0 THEN -1 ELSE 1
    IN  <<(sgn * n) \div g, (sgn * d) \div g>>

FAdd(a, b) == Frac(a[1] * b[2] + b[1] * a[2], a[2] * b[2])
FSub(a, b) == Frac(a[1] * b[2] - b[1] * a[2], a[2] * b[2])
FMul(a, b) == Frac(a[1] * b[1], a[2] * b[2])
FLe(a, b) == a[1] * b[2] <= b[1] * a[2]
FZero == <<0, 1>>

\* the point (x, y) for the values x, y of a G-code line
Pt(x, y) == <<Frac(x, 1), Frac(y, 1)>>

\* Optional[...] = None
None == << >>

(***************************************************************************)
(* 2D parser: parse_gcode_points                                           *)
(***************************************************************************)
\* a variant that yields for Z as the tracker does
YieldsXY_WithZ(coords) ==
    Found(coords, "X") \/ Found(coords, "Y") \/ Found(coords, "Z")

\* a variant that yields only for a line carrying both X and Y
YieldsXY_Both(coords) == Found(coords, "X") /\ Found(coords, "Y")

\* `if x_found or y_found`
YieldsXY(coords) == Found(coords, "X") \/ Found(coords, "Y")

\* one iteration of `for raw in fh`: the locals after the line, and the point
\* it yields (None when it yields nothing)
points_line(mabs, x, y, raw) ==
    LET line == strip_comments(raw)
        coords == parse_coords(line)
        move == ~IsBlank(line) /\ MOVE_CMD_RE(line)
        x2 == IF move THEN SetAxis(x, coords, "X") ELSE x
        y2 == IF move THEN SetAxis(y, coords, "Y") ELSE y
    IN  [mode_absolute |->
            IF IsBlank(line) THEN mabs
            ELSE IF startswith(line, "G90") THEN TRUE
            ELSE IF startswith(line, "G91") THEN FALSE ELSE mabs,
         cur_x |-> x2,
         cur_y |-> y2,
         p |-> IF move /\ YieldsXY(coords) THEN Pt(x2, y2) ELSE None]

(***************************************************************************)
(* Corner-adaptive resampler: batch_points_for_spline                      *)
(***************************************************************************)
\* np.linspace(a, b, n + 1)[1:] on one coordinate: a + i (b - a) / n, i = 1..n
linspace_tail(a, b, n) ==
    [i \in 1..n |-> FAdd(a, FMul(FSub(b, a), Frac(i, n)))]

\* the n points np.linspace gives on the segment p0 -> p1, p0 excluded
subdivide(p0, p1, n) ==
    [i \in 1..n |-> <<linspace_tail(p0[1], p1[1], n)[i],
                      linspace_tail(p0[2], p1[2], n)[i]>>]

\* a variant that leaves out the end point p1 when it subdivides
lin_interpolate_Inner(p0, p1, n) ==
    IF n <= 1 THEN <<p1>> ELSE SubSeq(subdivide(p0, p1, n), 1, n - 1)

\* _lin_interpolate
lin_interpolate(p0, p1, n) == IF n <= 1 THEN <<p1>> ELSE subdivide(p0, p1, n)

\* the squared length of b - a
dist2(a, b) ==
    LET dx == FSub(b[1], a[1])
        dy == FSub(b[2], a[2])
    IN  FAdd(FMul(dx, dx), FMul(dy, dy))

\* a variant that rounds down: the greatest n with n * ssd <= dist
RECURSIVE ceil_steps_Floor(_, _, _)
ceil_steps_Floor(d2, ssd, n) ==
    IF FLe(FMul(FMul(Frac(n + 1, 1), ssd), FMul(Frac(n + 1, 1), ssd)), d2)
    THEN ceil_steps_Floor(d2, ssd, n + 1)
    ELSE n

\* int(math.ceil(dist / ssd)) for dist = sqrt(d2) > 0: the least n with
\* n * ssd >= dist
RECURSIVE ceil_steps(_, _, _)
ceil_steps(d2, ssd, n) ==
    IF FLe(d2, FMul(FMul(Frac(n, 1), ssd), FMul(Frac(n, 1), ssd))) THEN n
    ELSE ceil_steps(d2, ssd, n + 1)

\* _append_segment: the points it pushes, in order
append_segment(a, b, ssd) ==
    LET d2 == dist2(a, b)
    IN  IF FLe(d2, FZero) THEN << >>
        ELSE LET c == ceil_steps(d2, ssd, 0)
                 n == IF c < 1 THEN 1 ELSE c
             IN  lin_interpolate(a, b, n)

\* cos^2 of the thresholds the model uses (20 degrees to six decimals: no
\* angle between two vectors of small integers comes that close to it)
Cos2(deg) ==
    CASE deg = 20 -> <<883022, 1000000>>
      [] deg = 30 -> <<3, 4>>
      [] deg = 90 -> <<0, 1>>

\* a variant without _angle_between's early return for a zero vector: the
\* cosine 0 of a zero vector is read as a right angle
is_corner_NoZeroCase(a, b, c, deg) ==
    LET v1 == <<FSub(b[1], a[1]), FSub(b[2], a[2])>>
        v2 == <<FSub(c[1], b[1]), FSub(c[2], b[2])>>
        na2 == FAdd(FMul(v1[1], v1[1]), FMul(v1[2], v1[2]))
        nb2 == FAdd(FMul(v2[1], v2[1]), FMul(v2[2], v2[2]))
        dot == FAdd(FMul(v1[1], v2[1]), FMul(v1[2], v2[2]))
    IN  IF deg <= 0 THEN TRUE
        ELSE \/ FLe(dot, FZero)
             \/ FLe(FMul(dot, dot), FMul(Cos2(deg), FMul(na2, nb2)))

\* _angle_between(v1, v2) >= math.radians(deg), for 0 <= deg <= 90: a zero
\* vector gives the angle 0.0; otherwise acos(c) >= deg iff c <= cos(deg)
is_corner(a, b, c, deg) ==
    LET v1 == <<FSub(b[1], a[1]), FSub(b[2], a[2])>>
        v2 == <<FSub(c[1], b[1]), FSub(c[2], b[2])>>
        na2 == FAdd(FMul(v1[1], v1[1]), FMul(v1[2], v1[2]))
        nb2 == FAdd(FMul(v2[1], v2[1]), FMul(v2[2], v2[2]))
        dot == FAdd(FMul(v1[1], v2[1]), FMul(v1[2], v2[2]))
    IN  IF deg <= 0 THEN TRUE
        ELSE IF na2 = FZero \/ nb2 = FZero THEN FALSE
        ELSE \/ FLe(dot, FZero)
             \/ FLe(FMul(dot, dot), FMul(Cos2(deg), FMul(na2, nb2)))

\* a variant that subdivides only the segment prev1 -> p
corner_points_OneSide(p2, p1, p, n_side) == subdivide(p1, p, n_side)

\* the points the corner branch pushes: corner_density on prev2 -> prev1, then
\* corner_density on prev1 -> p
corner_points(p2, p1, p, n_side) ==
    subdivide(p2, p1, n_side) \o subdivide(p1, p, n_side)

\* a variant without the corner branch
resample_step_NoCorner(p2, p1, p, deg, n_side, ssd) ==
    IF p1 = None THEN <<p>> ELSE append_segment(p1, p, ssd)

\* one iteration of `for p in gen`: the points it pushes, in order
resample_step(p2, p1, p, deg, n_side, ssd) ==
    IF p1 = None THEN <<p>>
    ELSE IF p2 = None THEN append_segment(p1, p, ssd)
    ELSE IF is_corner(p2, p1, p, deg) THEN corner_points(p2, p1, p, n_side)
    ELSE append_segment(p1, p, ssd)

(***************************************************************************)
(* Streaming batcher: push                                                 *)
(***************************************************************************)
\* a variant that keeps one point instead of two
last_one(b) == SubSeq(b, Len(b), Len(b))

\* batch[-2:]
last_two(b) == SubSeq(b, IF Len(b) > 2 THEN Len(b) - 1 ELSE 1, Len(b))
\* a variant that withholds only the last point, batch[:-1]
all_but_last_two_One(b) == SubSeq(b, 1, Len(b) - 1)

\* batch[:-2]
all_but_last_two(b) == SubSeq(b, 1, Len(b) - 2)

\* a variant that yields the whole buffer and keeps its last two points too
push_Overlap(b, p, size) ==
    LET b1 == Append(b, p)
    IN  IF Len(b1) >= size
        THEN [batch |-> SubSeq(b1, IF Len(b1) > 2 THEN Len(b1) - 1 ELSE 1, Len(b1)),
              res |-> <<b1>>]
        ELSE [batch |-> b1, res |-> None]

\* a variant that rotates only once batch_size points stand before the two
\* retained ones
push_Late(b, p, size) ==
    LET b1 == Append(b, p)
    IN  IF Len(b1) >= size + 2
        THEN [batch |-> last_two(b1), res |-> <<all_but_last_two(b1)>>]
        ELSE [batch |-> b1, res |-> None]

\* push(p): the buffer afterwards, and what it returns: None, or <<yield_list>>
push(b, p, size) ==
    LET b1 == Append(b, p)
    IN  IF Len(b1) >= size
        THEN [batch |-> last_two(b1), res |-> <<all_but_last_two(b1)>>]
        ELSE [batch |-> b1, res |-> None]

\* a variant that yields the buffer at the end of the input even when empty
final_batch_Always(b) == <<b>>

\* a variant that forgets the buffer at the end of the input
final_batch_Dropped(b) == None

\* `if batch: yield batch.copy()`: what is yielded at the end of the input
final_batch(b) == IF b # << >> THEN <<b>> ELSE None

(***************************************************************************)
(* Point collector, sparse mode: collect_sparse_points(raw=False)          *)
(***************************************************************************)
\* a variant that keeps the points at odd indices, kept[1::2]
every_other_Odd(k) == [i \in 1..(Len(k) \div 2) |-> k[2 * i]]

\* kept[::2]
every_other(k) == [i \in 1..((Len(k) + 1) \div 2) |-> k[2 * i - 1]]

\* a variant that puts each batch in front of the points kept so far
collect_batch_Front(k, b, maxp) ==
    LET k1 == b \o k
    IN  IF Len(k1) > maxp * 2 THEN every_other(k1) ELSE k1

\* the body of `for batch in batch_points_for_spline(...)`: kept afterwards
collect_batch(k, b, maxp) ==
    LET k1 == k \o b
    IN  IF Len(k1) > maxp * 2 THEN every_other(k1) ELSE k1

\* np.linspace(0, n - 1, num).astype(int), as 1-based indices
linspace_idxs(n, num) ==
    [i \in 1..num |-> IF num = 1 THEN 1 ELSE (((i - 1) * (n - 1)) \div (num - 1)) + 1]

\* a variant that decimates with the fixed stride len(kept) // max_points
final_select_Stride(k, maxp) ==
    IF Len(k) > maxp /\ maxp > 0
    THEN LET step == Len(k) \div maxp
         IN  [i \in 1..((Len(k) + step - 1) \div step) |-> k[(i - 1) * step + 1]]
    ELSE IF Len(k) > maxp THEN << >> ELSE k

\* a variant that selects only above twice max_points, the loop's threshold
final_select_Twice(k, maxp) ==
    IF Len(k) > maxp * 2
    THEN [i \in 1..maxp |-> k[linspace_idxs(Len(k), maxp)[i]]]
    ELSE k

\* the selection after the loop
final_select(k, maxp) ==
    IF Len(k) > maxp
    THEN [i \in 1..maxp |-> k[linspace_idxs(Len(k), maxp)[i]]]
    ELSE k

\* what the consumer's loop does with the batches a step yields (none or one)
consume(k, res, maxp) == IF res = None THEN k ELSE collect_batch(k, res[1], maxp)

RECURSIVE SumLen(_)
SumLen(bs) == IF bs = << >> THEN 0 ELSE Len(bs[1]) + SumLen(Tail(bs))

(***************************************************************************)
(* The runs                                                                *)
(***************************************************************************)
\* the lines of the files read in sparse mode
PathLines ==
    { L("G1", <<W("X", 0), W("Y", 0)>>),
      L("G1", <<W("X", 1), W("Y", 0)>>),
      L("G1", <<W("X", 1), W("Y", 1)>>),
      L("G1", <<W("X", 2)>>),
      L("G0", <<W("Z", 1)>>) }

\* the lines of the files read by both parsers
BothLines ==
    { L("G1", <<W("X", 0), W("Y", 0)>>),
      L("G1", <<W("X", 1), W("Y", 0)>>),
      L("G1", <<W("X", 2), W("Y", 0)>>),
      L("G1", <<W("Y", 3)>>),
      L("G1", <<W("X", 5)>>),
      L("G0", <<W("Z", 1)>>),
      L("G00", <<W("X", 2), W("Y", 1), W("Z", 2)>>),
      L("G1", <<W("E", 5)>>),
      L("G1", <<W("X", 1), W("E", 1)>>),
      L("G1", <<BadW("X"), W("Y", 1)>>),
      L("G90", << >>),
      L("G91", << >>),
      L("G92", <<W("X", 0), W("Y", 0)>>),
      L("G2", <<W("X", 1), W("Y", 1)>>),
      LC("G1", <<W("X", 5)>>, Cm(";", "", <<W("Y", 7)>>)),
      L("G1", <<W("X", 5), W("Y", 5)>>),
      L("G1", <<W("Z", 1)>>),
      L("G92", <<W("E", 0)>>),
      L("G92", <<W("Z", 2), W("E", 1)>>) }

\* the arguments tried in sparse mode
MaxBatchSize == 4
MaxMaxPoints == 2
AngleThresholds == {0, 20, 90}
CornerDensities == {1, 4}
SampleDists == {Frac(1, 5), Frac(1, 1)}

InitLocals ==
    /\ file = << >>
    /\ pc = "read"
    /\ mode_absolute = TRUE
    /\ e_absolute = TRUE
    /\ cur_x = 0 /\ cur_y = 0 /\ cur_z = 0 /\ cur_e = 0
    /\ last_e = 0 /\ e_offset = 0
    /\ extruding_state = 0
    /\ xs = << >> /\ ys = << >> /\ zs = << >> /\ es = << >>
    /\ g_mode_absolute = TRUE
    /\ g_cur_x = 0 /\ g_cur_y = 0
    /\ points = << >>
    /\ prev2 = None /\ prev1 = None
    /\ batch = << >> /\ pending = << >> /\ pushed = << >> /\ batches = << >>
    /\ total = 0 /\ kept = << >>
    /\ out_x = << >> /\ out_y = << >>
    /\ sizes = << >>

\* collect_sparse_points(file_path, raw=True): every other argument at its default
Init ==
    /\ InitLocals
    /\ max_points = 5000
    /\ batch_size = 1000
    /\ angle_threshold_deg = 30
    /\ corner_density = 6
    /\ straight_sample_dist = Frac(1, 2)

\* collect_sparse_points(file_path, max_points, batch_size=..., ...)
InitSparse ==
    /\ InitLocals
    /\ max_points \in 0..MaxMaxPoints
    /\ batch_size \in 1..MaxBatchSize
    /\ angle_threshold_deg \in AngleThresholds
    /\ corner_density \in CornerDensities
    /\ straight_sample_dist \in SampleDists

\* the tracker's locals, as the record extrude_line works on
Locals ==
    [mode_absolute |-> mode_absolute, e_absolute |-> e_absolute,
     cur_x |-> cur_x, cur_y |-> cur_y, cur_z |-> cur_z, cur_e |-> cur_e,
     last_e |-> last_e, e_offset |-> e_offset,
     extruding_state |-> extruding_state]

\* one iteration of `for raw in fh` whose line is blank after stripping
SkipLine(raw) ==
    /\ IsBlank(strip_comments(raw))
    /\ UNCHANGED <<trackerVars, rawVars>>

\* one iteration of `for raw in fh` on a non-blank line, with the consumer's
\* appends when the line yields
TrackLine(raw) ==
    \E r \in {extrude_line(Locals, raw)} :
        /\ ~IsBlank(strip_comments(raw))
        /\ mode_absolute' = r.st.mode_absolute
        /\ e_absolute' = r.st.e_absolute
        /\ cur_x' = r.st.cur_x /\ cur_y' = r.st.cur_y
        /\ cur_z' = r.st.cur_z /\ cur_e' = r.st.cur_e
        /\ last_e' = r.st.last_e
        /\ e_offset' = r.st.e_offset
        /\ extruding_state' = r.st.extruding_state
        /\ IF r.out # << >>
           THEN /\ xs' = Append(xs, r.out[1][1]) /\ ys' = Append(ys, r.out[1][2])
                /\ zs' = Append(zs, r.out[1][3]) /\ es' = Append(es, r.out[1][4])
           ELSE UNCHANGED rawVars

\* the raw-mode run reads the next line of the file
ReadLine ==
    /\ pc = "read"
    /\ Len(file) < MaxLines
    /\ \E raw \in Lines :
        /\ file' = Append(file, raw)
        /\ (SkipLine(raw) \/ TrackLine(raw))
    /\ UNCHANGED <<pc, argVars, parserVars, batcherVars, collectorVars>>

\* end of file: the generator is exhausted and the four arrays are returned
EndOfFile ==
    /\ pc = "read"
    /\ pc' = "done"
    /\ UNCHANGED <<file, trackerVars, rawVars, argVars, parserVars, batcherVars,
                   collectorVars>>

Next == ReadLine \/ EndOfFile

Spec == Init /\ [][Next]_vars

\* the same file read line by line by the motion-state tracker (raw mode) and by
\* the 2D parser, whose points are listed as list(parse_gcode_points(f)) does
ReadBoth ==
    /\ pc = "read"
    /\ Len(file) < MaxLines
    /\ \E raw \in BothLines :
        LET r == points_line(g_mode_absolute, g_cur_x, g_cur_y, raw)
        IN  /\ file' = Append(file, raw)
            /\ (SkipLine(raw) \/ TrackLine(raw))
            /\ g_mode_absolute' = r.mode_absolute
            /\ g_cur_x' = r.cur_x
            /\ g_cur_y' = r.cur_y
            /\ points' = IF r.p = None THEN points ELSE Append(points, r.p)
    /\ UNCHANGED <<pc, argVars, batcherVars, collectorVars>>

NextBoth == ReadBoth \/ EndOfFile

SpecBoth == Init /\ [][NextBoth]_vars

\* sparse mode: the resampler's `for p in gen` resumes the 2D parser, which reads
\* one more line; when the line yields a point the resampler's iteration for it
\* starts: the points it will push are lined up and the window slides (the code
\* slides the window when the iteration ends; no push reads the window)
ParseLine ==
    /\ pc = "read"
    /\ Len(file) < MaxLines
    /\ \E raw \in PathLines :
        \E r \in {points_line(g_mode_absolute, g_cur_x, g_cur_y, raw)} :
            /\ file' = Append(file, raw)
            /\ g_mode_absolute' = r.mode_absolute
            /\ g_cur_x' = r.cur_x
            /\ g_cur_y' = r.cur_y
            /\ IF r.p = None
               THEN UNCHANGED <<pc, points, prev2, prev1, pending>>
               ELSE \E pts \in {resample_step(prev2, prev1, r.p, angle_threshold_deg,
                                              corner_density, straight_sample_dist)} :
                    /\ points' = Append(points, r.p)
                    /\ pending' = pts
                    /\ prev2' = IF prev1 = None THEN prev2 ELSE prev1
                    /\ prev1' = r.p
                    /\ pc' = IF pts = << >> THEN "read" ELSE "push"
    /\ UNCHANGED <<batch, pushed, batches>>
    /\ UNCHANGED <<trackerVars, rawVars, argVars, collectorVars>>

\* sparse mode: push(q) for the next point of the current iteration and, when it
\* returns a list, the `yield` of it with the collector's loop body on it
Push ==
    /\ pc = "push"
    /\ \E r \in {push(batch, Head(pending), batch_size)} :
           /\ batch' = r.batch
           /\ pushed' = Append(pushed, Head(pending))
           /\ batches' = batches \o r.res
           /\ total' = total + SumLen(r.res)
           /\ kept' = consume(kept, r.res, max_points)
           /\ sizes' = IF r.res = None THEN sizes
                       ELSE Append(sizes, Len(consume(kept, r.res, max_points)))
    /\ pending' = Tail(pending)
    /\ pc' = IF Tail(pending) = << >> THEN "read" ELSE "push"
    /\ UNCHANGED <<file, prev2, prev1, out_x, out_y>>
    /\ UNCHANGED <<trackerVars, rawVars, argVars, parserVars>>

\* sparse mode: the file is exhausted: the remaining buffer is yielded (when it
\* is not empty) and collected, then the collector selects and returns
Exhaust ==
    /\ pc = "read"
    /\ \E res \in {final_batch(batch)} :
       \E k \in {final_select(consume(kept, res, max_points), max_points)} :
           /\ batches' = batches \o res
           /\ total' = total + SumLen(res)
           /\ kept' = k
           /\ sizes' = IF res = None THEN sizes
                       ELSE Append(sizes, Len(consume(kept, res, max_points)))
           /\ out_x' = [i \in 1..Len(k) |-> k[i][1]]
           /\ out_y' = [i \in 1..Len(k) |-> k[i][2]]
    /\ pc' = "done"
    /\ UNCHANGED <<file, prev2, prev1, batch, pending, pushed>>
    /\ UNCHANGED <<trackerVars, rawVars, argVars, parserVars>>

NextSparse == ParseLine \/ Push \/ Exhaust

SpecSparse == InitSparse /\ [][NextSparse]_vars

(***************************************************************************)
(* Properties of the motion-state tracker and of raw mode                  *)
(***************************************************************************)
\* what a source line says, read off the line itself
MoveWords == {"G0", "G1", "G00", "G01"}
Carries(raw, a) == \E i \in DOMAIN raw.args : raw.args[i].ok /\ raw.args[i].l = a
Value(raw, a) == raw.args[LastWord(raw.args, a)].v
IsMotionLine(raw) == raw.cmd \in MoveWords
CarriesXYZ(raw) == Carries(raw, "X") \/ Carries(raw, "Y") \/ Carries(raw, "Z")
\* the indices, in file order, of the motion lines that carry X, Y or Z
EmittingLines(f) ==
    SelectSeq([i \in 1..Len(f) |-> i],
              LAMBDA i : IsMotionLine(f[i]) /\ CarriesXYZ(f[i]))
\* the step read one more line, `raw`
Reads(raw) == file' = Append(file, raw)
\* the step appended one sample to the four raw-mode lists
Emitted == Len(xs') = Len(xs) + 1
\* f starts with the lines of g
StartsWith(f, g) == Len(f) >= Len(g) /\ SubSeq(f, 1, Len(g)) = g

\* C1: raw mode returns four sequences of equal length whose entry k is the
\* sample of the k-th motion line, in file order, that carries X, Y or Z: the
\* axes that line carries have the line's values in entry k, and no other line
\* produces an entry.
C1_RawOrder ==
    LET idx == EmittingLines(file)
    IN  /\ Len(xs) = Len(idx) /\ Len(ys) = Len(idx)
        /\ Len(zs) = Len(idx) /\ Len(es) = Len(idx)
        /\ \A k \in 1..Len(idx) :
              LET raw == file[idx[k]]
              IN  /\ Carries(raw, "X") => xs[k] = Value(raw, "X")
                  /\ Carries(raw, "Y") => ys[k] = Value(raw, "Y")
                  /\ Carries(raw, "Z") => zs[k] = Value(raw, "Z")
                  /\ es[k] \in {0, 1}

\* C1 witness: a finished run in which a line that emits nothing stands
\* between two emitting lines.
C1_Witness ==
    /\ pc = "done"
    /\ file = <<L("G1", <<W("X", 5)>>), L("G1", <<W("E", 5)>>), L("G0", <<W("Z", 1)>>)>>
    /\ xs = <<5, 5>> /\ ys = <<0, 0>> /\ zs = <<0, 1>> /\ es = <<0, 1>>

\* C2: a motion line that omits X, Y or Z emits a sample whose value for each
\* omitted axis is that axis's value in the tracker state just before the line;
\* G1 X5 then G1 Y3 from the initial state gives (5,0,0) then (5,3,0).
C2_AxisStickiness ==
    /\ [][\A raw \in Lines :
            (Reads(raw) /\ Emitted) =>
                /\ ~Carries(raw, "X") => xs'[Len(xs')] = cur_x
                /\ ~Carries(raw, "Y") => ys'[Len(ys')] = cur_y
                /\ ~Carries(raw, "Z") => zs'[Len(zs')] = cur_z]_vars
    /\ [](StartsWith(file, <<L("G1", <<W("X", 5)>>), L("G1", <<W("Y", 3)>>)>>)
            => /\ SubSeq(xs, 1, 2) = <<5, 5>>
               /\ SubSeq(ys, 1, 2) = <<0, 3>>
               /\ SubSeq(zs, 1, 2) = <<0, 0>>)

\* C2 witness: G1 Y3 read after G1 X5 and G0 Z1 has emitted (5,3,1), the
\* omitted X and Z carried over from before the line.
C2_Witness ==
    /\ file = <<L("G1", <<W("X", 5)>>), L("G0", <<W("Z", 1)>>), L("G1", <<W("Y", 3)>>)>>
    /\ xs = <<5, 5, 5>> /\ ys = <<0, 0, 3>> /\ zs = <<0, 1, 1>>

\* C3: under absolute extrusion a motion line carrying E sets cur_e to the E
\* value, and the sample it emits has extruding = 1 exactly when that value is
\* strictly greater than cur_e before the line; G1 X1 E1 then G1 X2 E2 gives
\* extruding [1,1].
C3_AbsoluteE ==
    /\ [][\A raw \in Lines :
            (Reads(raw) /\ IsMotionLine(raw) /\ Carries(raw, "E") /\ e_absolute) =>
                /\ cur_e' = Value(raw, "E")
                /\ Emitted =>
                     es'[Len(es')] = (IF Value(raw, "E") > cur_e THEN 1 ELSE 0)]_vars
    /\ [](StartsWith(file, <<L("G1", <<W("X", 1), W("E", 1)>>),
                             L("G1", <<W("X", 2), W("E", 2)>>)>>)
            => SubSeq(es, 1, 2) = <<1, 1>>)

\* C3 witness: absolute E rising, then repeated (not strictly greater), then
\* falling: extruding 1, 0, 0.
C3_Witness ==
    /\ e_absolute
    /\ file = <<L("G1", <<W("X", 1), W("E", 1)>>), L("G1", <<W("X", 1), W("E", 1)>>),
                L("G1", <<W("X", 1), W("E", -1)>>)>>
    /\ es = <<1, 0, 0>> /\ cur_e = -1

\* C4: under relative extrusion (after M83) a motion line carrying E adds the E
\* value to cur_e, and the sample it emits has extruding = 1 exactly when the E
\* value on the line is strictly positive; M83, G1 X1 E1, G1 X1 E-1 gives [1,0].
C4_RelativeE ==
    /\ [][\A raw \in Lines :
            (Reads(raw) /\ IsMotionLine(raw) /\ Carries(raw, "E") /\ ~e_absolute) =>
                /\ cur_e' = cur_e + Value(raw, "E")
                /\ Emitted =>
                     es'[Len(es')] = (IF Value(raw, "E") > 0 THEN 1 ELSE 0)]_vars
    /\ [](StartsWith(file, <<L("M83", << >>), L("G1", <<W("X", 1), W("E", 1)>>),
                             L("G1", <<W("X", 1), W("E", -1)>>)>>)
            => SubSeq(es, 1, 2) = <<1, 0>>)

\* C4 witness: M83, then E1 and E-1 accumulated to cur_e = 0 with extruding 1, 0.
C4_Witness ==
    /\ ~e_absolute
    /\ file = <<L("M83", << >>), L("G1", <<W("X", 1), W("E", 1)>>),
                L("G1", <<W("X", 1), W("E", -1)>>)>>
    /\ es = <<1, 0>> /\ cur_e = 0

\* C5: a motion line that carries none of X, Y, Z emits no sample, in every
\* tracker state.
C5_PureENoSample ==
    [][\A raw \in Lines :
          (Reads(raw) /\ IsMotionLine(raw) /\ ~CarriesXYZ(raw)) =>
              UNCHANGED rawVars]_vars

\* C5 witness: G1 E5 read after a sample was emitted: cur_e moved, the lists
\* did not.
C5_Witness ==
    /\ file = <<L("G1", <<W("X", 1)>>), L("G1", <<W("E", 5)>>)>>
    /\ cur_e = 5 /\ extruding_state = 1
    /\ xs = <<1>> /\ es = <<0>>

(***************************************************************************)
(* Properties of the batcher, the resampler and sparse mode                *)
(***************************************************************************)
\* the points parse_gcode_points yields for the lines f, in order
RECURSIVE PointsFrom(_, _, _, _)
PointsFrom(f, mabs, x, y) ==
    IF f = << >> THEN << >>
    ELSE LET r == points_line(mabs, x, y, Head(f))
         IN  (IF r.p = None THEN << >> ELSE <<r.p>>)
                 \o PointsFrom(Tail(f), r.mode_absolute, r.cur_x, r.cur_y)
InputPoints == PointsFrom(file, TRUE, 0, 0)

\* C6: in sparse mode the two returned sequences have equal length, and that
\* length is at most max_points, for every max_points >= 0, batch_size and file.
C6_SparseCap ==
    pc = "done" => (Len(out_x) = Len(out_y) /\ Len(out_x) <= max_points)

\* C6 witness: a finished run that collected more than twice max_points and
\* returned exactly max_points = 2 points.
C6_Witness ==
    /\ pc = "done" /\ max_points = 2
    /\ Len(pushed) > 2 * max_points
    /\ Len(out_x) = 2 /\ Len(out_y) = 2

\* C7 as stated: the point count of all batches, less the two points of overlap
\* at each batch boundary, equals the number of points the resampler produced
\* (taken for the runs whose batches all hold the two points an overlap needs).
C7_DropOverlap ==
    (/\ pc = "done" /\ batches # << >>
     /\ \A i \in 1..Len(batches) : Len(batches[i]) >= 2)
        => SumLen(batches) - 2 * (Len(batches) - 1) = Len(pushed)

\* C7 amended: no point is duplicated at a batch boundary (the two retained
\* points are withheld from the batch just yielded), so the batches, with nothing
\* dropped, hold together as many points as the resampler produced; during the
\* run the batches and the buffer together do.
C7_BatchCount ==
    /\ pc = "done" => SumLen(batches) = Len(pushed)
    /\ pc # "done" => SumLen(batches) + Len(batch) = Len(pushed)

\* C7 witness: a finished run of three or more batches.
C7_Witness ==
    /\ pc = "done" /\ Len(batches) >= 3
    /\ \A i \in 1..Len(batches) : batches[i] # << >>
    /\ SumLen(batches) = Len(pushed)

\* C8 as stated: a push that makes the buffer reach batch_size yields all but
\* the last two buffered points and leaves exactly two points, the last two, in
\* the buffer.
C8_RotationTwo ==
    [][(pc = "push" /\ Len(batch) + 1 >= batch_size) =>
          LET b1 == Append(batch, Head(pending))
          IN  /\ batches' = Append(batches, SubSeq(b1, 1, Len(b1) - 2))
              /\ Len(batch') = 2
              /\ batch' = SubSeq(b1, Len(b1) - 1, Len(b1))]_vars

\* C8 amended: a push that makes the buffer reach or exceed batch_size yields
\* all buffered points except the last two as one batch, and the buffer
\* afterwards holds exactly the last two buffered points, in order; when only
\* one point is buffered (batch_size = 1, first push) the batch yielded is empty
\* and the buffer keeps that one point.
C8_Rotation ==
    [][(pc = "push" /\ Len(batch) + 1 >= batch_size) =>
          LET b1 == Append(batch, Head(pending))
              n == Len(b1)
          IN  /\ batches' = Append(batches, [i \in 1..(n - 2) |-> b1[i]])
              /\ batch' = (IF n >= 2 THEN <<b1[n - 1], b1[n]>> ELSE b1)]_vars

\* C8 witness: batch_size = 3 and the third push has just rotated the buffer:
\* one point yielded, the last two retained.
C8_Witness ==
    /\ batch_size = 3 /\ Len(pushed) = 3
    /\ batches = <<<<pushed[1]>>>>
    /\ batch = <<pushed[2], pushed[3]>>

\* C9: on input exhaustion the points still buffered are yielded as one final
\* batch, and when the input produced no point no batch is yielded.
C9_FinalFlush ==
    /\ [][(pc # "done" /\ pc' = "done") =>
            batches' = (IF batch = << >> THEN batches ELSE Append(batches, batch))]_vars
    /\ [](pc = "done" =>
            /\ InputPoints = << >> => batches = << >>
            /\ InputPoints # << >> =>
                 (batch # << >> /\ batches # << >> /\ batches[Len(batches)] = batch))

\* C9 witness: a finished run whose last batch is the two points left in the
\* buffer after earlier batches.
C9_Witness ==
    /\ pc = "done" /\ Len(batches) >= 2
    /\ Len(batch) = 2 /\ batches[Len(batches)] = batch

\* C10: a three-point path with distinct consecutive points whose turn angle at
\* the middle point is at least the threshold, with corner_density >= 1, yields
\* more than 3 points over all batches.
C10_CornerDensity ==
    (/\ pc = "done"
     /\ Len(InputPoints) = 3
     /\ InputPoints[1] # InputPoints[2] /\ InputPoints[2] # InputPoints[3]
     /\ is_corner(InputPoints[1], InputPoints[2], InputPoints[3], angle_threshold_deg)
     /\ corner_density >= 1)
        => SumLen(batches) > 3

\* C10 witness: (0,0),(1,0),(1,1) with threshold 20 degrees, corner_density 4
\* and straight_sample_dist 0.2: 1 + 5 + 8 points.
C10_Witness ==
    /\ pc = "done"
    /\ InputPoints = <<Pt(0, 0), Pt(1, 0), Pt(1, 1)>>
    /\ angle_threshold_deg = 20 /\ corner_density = 4
    /\ straight_sample_dist = Frac(1, 5)
    /\ SumLen(batches) = 14

(***************************************************************************)
(* Properties of the 2D parser, alone and beside the tracker               *)
(***************************************************************************)
\* the indices, in file order, of the motion lines that carry X or Y
CarriesXY(raw) == Carries(raw, "X") \/ Carries(raw, "Y")
XYLines(f) ==
    SelectSeq([i \in 1..Len(f) |-> i],
              LAMBDA i : IsMotionLine(f[i]) /\ CarriesXY(f[i]))

\* C11: parse_gcode_points yields, in file order, exactly one point for each
\* G0/G1 motion line that carries X or Y; a coordinate the line carries has the
\* line's value and a coordinate it omits has the value of the point before (0
\* at the first point); G1 X0 Y0, G1 X1 Y0, G1 X2 Y0 give (0,0), (1,0), (2,0).
C11_Points2D ==
    LET idx == XYLines(file)
    IN  /\ Len(points) = Len(idx)
        /\ \A k \in 1..Len(idx) :
              LET raw == file[idx[k]]
                  before == IF k = 1 THEN Pt(0, 0) ELSE points[k - 1]
              IN  /\ points[k][1] = IF Carries(raw, "X")
                                    THEN Frac(Value(raw, "X"), 1) ELSE before[1]
                  /\ points[k][2] = IF Carries(raw, "Y")
                                    THEN Frac(Value(raw, "Y"), 1) ELSE before[2]
        /\ StartsWith(file, <<L("G1", <<W("X", 0), W("Y", 0)>>),
                              L("G1", <<W("X", 1), W("Y", 0)>>),
                              L("G1", <<W("X", 2), W("Y", 0)>>)>>)
              => SubSeq(points, 1, 3) = <<Pt(0, 0), Pt(1, 0), Pt(2, 0)>>

\* C11 witness: X only, then a line without X or Y, then Y only: two points,
\* the second with the first one's X.
C11_Witness ==
    /\ file = <<L("G1", <<W("X", 5)>>), L("G1", <<W("E", 5)>>), L("G1", <<W("Y", 3)>>)>>
    /\ points = <<Pt(5, 0), Pt(5, 3)>>

(***************************************************************************)
(* Properties of sparse mode, continued                                    *)
(***************************************************************************)
\* C12: in sparse mode, when the batches hold together more than max_points
\* points (max_points >= 1), both returned sequences have exactly max_points
\* entries; the halving of the loop never leaves max_points points or fewer, so
\* this is so whether or not it ran.
C12_ExactlyMax ==
    (max_points >= 1 /\ total > max_points) =>
        /\ pc # "done" => Len(kept) > max_points
        /\ pc = "done" => (Len(out_x) = max_points /\ Len(out_y) = max_points)

\* C12 witness: three points collected with max_points = 2 (no halving, which
\* needs more than four) and two returned.
C12_Witness ==
    /\ pc = "done" /\ max_points = 2 /\ total = 3
    /\ Len(out_x) = 2 /\ Len(out_y) = 2

\* C13 as stated: for every batch_size >= 1 no batch yielded, the final one
\* included, holds more than batch_size points.
C13_Bounded ==
    \A i \in 1..Len(batches) : Len(batches[i]) <= batch_size

\* C13 amended: no batch yielded, the final one included, holds more than
\* batch_size points when batch_size >= 2, nor more than the two retained
\* points when batch_size = 1; the buffer between pushes is bounded likewise.
C13_BoundedFromTwo ==
    LET bound == IF batch_size >= 2 THEN batch_size ELSE 2
    IN  /\ \A i \in 1..Len(batches) : Len(batches[i]) <= bound
        /\ Len(batch) <= bound

\* C13 witness: batch_size = 1, a finished run whose final batch is the two
\* points the buffer retained.
C13_Witness ==
    /\ pc = "done" /\ batch_size = 1
    /\ batches # << >> /\ Len(batches[Len(batches)]) = 2

(***************************************************************************)
(* Properties of the motion-state tracker, continued                       *)
(***************************************************************************)
\* the samples the tracker yields for the file f, started in the state st
RECURSIVE SamplesFrom(_, _)
SamplesFrom(f, st) ==
    IF f = << >> THEN << >>
    ELSE LET r == extrude_line(st, Head(f))
         IN  r.out \o SamplesFrom(Tail(f), r.st)
Samples(f) == SamplesFrom(f, extrude_init)
\* the samples of this run, as raw mode has listed them
Listed == [k \in 1..Len(xs) |-> <<xs[k], ys[k], zs[k], es[k]>>]
\* the file f with every G90 and G91 line removed
IsModeLine(raw) == raw.cmd \in {"G90", "G91"}
WithoutModeLines(f) == SelectSeq(f, LAMBDA raw : ~IsModeLine(raw))

\* C14: the samples emitted for a file are those emitted for the same file with
\* every G90 and G91 line removed, and X, Y, Z of a motion line overwrite the
\* axis with the line's value whatever mode_absolute is.
C14_ModeIgnored ==
    /\ [](Listed = Samples(WithoutModeLines(file)))
    /\ [][\A raw \in Lines :
            (Reads(raw) /\ IsMotionLine(raw)) =>
                /\ Carries(raw, "X") => cur_x' = Value(raw, "X")
                /\ Carries(raw, "Y") => cur_y' = Value(raw, "Y")
                /\ Carries(raw, "Z") => cur_z' = Value(raw, "Z")]_vars

\* C14 witness: G1 X1 read after G1 X5 and G91, with mode_absolute false, has
\* emitted x = 1 (not 6).
C14_Witness ==
    /\ ~mode_absolute
    /\ file = <<L("G1", <<W("X", 5)>>), L("G91", << >>), L("G1", <<W("X", 1)>>)>>
    /\ xs = <<5, 1>>

\* the last line read and the one before it
LastLine == file[Len(file)]
LineBefore == file[Len(file) - 1]

\* C15: a G92 line sets cur_e and cur_z to the E and Z it carries and emits no
\* sample; an absolute-E motion line right after a G92 with E is compared with
\* the reset value, and a motion line without Z right after a G92 with Z emits
\* the reset z; G1 X1 E5, G92 E0, G1 X2 E1 gives extruding [1,1].
C15_G92Reset ==
    /\ [][\A raw \in Lines :
            (Reads(raw) /\ raw.cmd = "G92") =>
                /\ Carries(raw, "E") => cur_e' = Value(raw, "E")
                /\ Carries(raw, "Z") => cur_z' = Value(raw, "Z")
                /\ UNCHANGED rawVars]_vars
    /\ []((/\ Len(file) >= 2
           /\ LineBefore.cmd = "G92"
           /\ IsMotionLine(LastLine) /\ CarriesXYZ(LastLine)) =>
              /\ (Carries(LineBefore, "E") /\ Carries(LastLine, "E") /\ e_absolute)
                    => es[Len(es)] = (IF Value(LastLine, "E") > Value(LineBefore, "E")
                                      THEN 1 ELSE 0)
              /\ (Carries(LineBefore, "Z") /\ ~Carries(LastLine, "Z"))
                    => zs[Len(zs)] = Value(LineBefore, "Z"))
    /\ [](StartsWith(file, <<L("G1", <<W("X", 1), W("E", 5)>>),
                             L("G92", <<W("E", 0)>>),
                             L("G1", <<W("X", 2), W("E", 1)>>)>>)
            => SubSeq(es, 1, 2) = <<1, 1>>)

\* C15 witness: E5, then G92 E0, then E1: the last line extrudes, 1 > 0, though
\* 1 < 5.
C15_Witness ==
    /\ file = <<L("G1", <<W("X", 1), W("E", 5)>>), L("G92", <<W("E", 0)>>),
                L("G1", <<W("X", 2), W("E", 1)>>)>>
    /\ cur_e = 1
    /\ es = <<1, 1>>

\* C16: a motion line that carries X, Y or Z but no E emits a sample whose
\* extruding value is the extruding flag held before the line, and leaves cur_e
\* and the flag unchanged; while no motion line with E has been read every
\* sample has extruding 0.
C16_StickyFlag ==
    /\ [][\A raw \in Lines :
            (Reads(raw) /\ IsMotionLine(raw) /\ CarriesXYZ(raw) /\ ~Carries(raw, "E")) =>
                /\ Emitted
                /\ es'[Len(es')] = extruding_state
                /\ extruding_state' = extruding_state
                /\ cur_e' = cur_e]_vars
    /\ []((\A i \in 1..Len(file) : ~(IsMotionLine(file[i]) /\ Carries(file[i], "E")))
            => \A k \in 1..Len(es) : es[k] = 0)

\* C16 witness: after the extruding move G1 X1 E1, the lines G1 X5 and G0 Z1
\* carry no E and emit extruding 1.
C16_Witness ==
    /\ file = <<L("G1", <<W("X", 1), W("E", 1)>>), L("G1", <<W("X", 5)>>),
                L("G0", <<W("Z", 1)>>)>>
    /\ es = <<1, 1, 1>> /\ cur_e = 1

(***************************************************************************)
(* The 2D parser beside the tracker                                        *)
(***************************************************************************)
\* the (x, y) projection of the raw-mode samples numbered by ks
Projection(ks) == [j \in 1..Len(ks) |-> Pt(xs[ks[j]], ys[ks[j]])]

\* C17 as stated: the points fed to the resampler are the (x, y) projection of
\* the raw-mode samples for the same file, one point per sample in order.
C17_SameStream ==
    points = Projection([k \in 1..Len(xs) |-> k])

\* C17 amended: the points fed to the resampler are the (x, y) projection of
\* the raw-mode samples of the lines that carry X or Y, in order; a motion line
\* carrying Z but neither X nor Y gives a raw-mode sample and no point.
C17_StreamXY ==
    LET idx == EmittingLines(file)
        withXY == SelectSeq([k \in 1..Len(idx) |-> k],
                            LAMBDA k : CarriesXY(file[idx[k]]))
    IN  /\ Len(xs) = Len(idx)
        /\ points = Projection(withXY)

\* C17 witness: G0 Z1 between two XY moves: three raw-mode samples, two points.
C17_Witness ==
    /\ file = <<L("G1", <<W("X", 1), W("Y", 0)>>), L("G0", <<W("Z", 1)>>),
                L("G1", <<W("X", 2), W("Y", 0)>>)>>
    /\ xs = <<1, 1, 2>> /\ ys = <<0, 0, 0>> /\ zs = <<0, 1, 1>>
    /\ points = <<Pt(1, 0), Pt(2, 0)>>

(***************************************************************************)
(* Properties of the line tokenizer as the tracker uses it                 *)
(***************************************************************************)
\* the command words the tracker acts on
Recognized == {"G90", "G91", "M82", "M83", "G92"} \cup MoveWords
\* the line has a word of letter a whose number does not match the pattern
Malformed(raw, a) == \E i \in DOMAIN raw.args : ~raw.args[i].ok /\ raw.args[i].l = a
\* the tracker's value for the axis of letter a
Axis(a) == IF a = "X" THEN cur_x ELSE IF a = "Y" THEN cur_y ELSE cur_z

HasComment(raw) == raw.comment.style # ""

Yielded(p) == points' = Append(points, p)
\* the step read a line for which the 2D parser yielded a point, Current
YieldedOne == Len(points') = Len(points) + 1
Current == points'[Len(points')]
\* the squared distance of two points, and the square of a rational
SqDist(p, q) ==
    FAdd(FMul(FSub(q[1], p[1]), FSub(q[1], p[1])),
         FMul(FSub(q[2], p[2]), FSub(q[2], p[2])))
Sq(r) == FMul(r, r)
FLess(a, b) == a[1] * b[2] < b[1] * a[2]
\* n = max(1, ceil(d / ssd)) for the segment a -> b of length d > 0
IsStepCount(n, a, b, ssd) ==
    /\ n >= 1
    /\ FLe(SqDist(a, b), FMul(Frac(n * n, 1), Sq(ssd)))
    /\ n > 1 => FLess(FMul(Frac((n - 1) * (n - 1), 1), Sq(ssd)), SqDist(a, b))
\* q is the point a + (i / n) (b - a)
IsFraction(q, i, n, a, b) ==
    \A c \in 1..2 :
        FMul(Frac(n, 1), FSub(q[c], a[c])) = FMul(Frac(i, 1), FSub(b[c], a[c]))
\* the points the step lined up to push
Emits == pending'

\* C20: at the second input point, and at every later point whose turn angle
\* is below the threshold, with the point at a distance d > 0 from the point
\* before, the step emits exactly n = max(1, ceil(d / straight_sample_dist))
\* points, the i-th at i/n of the way from the previous point to the current
\* one (so the previous point is left out and the last is the current point),
\* each at most straight_sample_dist from the one before.
C20_StraightStep ==
    [][LET p == Current
        IN  (/\ YieldedOne /\ Yielded(p)
             /\ prev1 # None /\ prev1 # p
             /\ prev2 = None \/ ~is_corner(prev2, prev1, p, angle_threshold_deg)) =>
                LET n == Len(Emits)
                IN  /\ IsStepCount(n, prev1, p, straight_sample_dist)
                    /\ \A i \in 1..n : IsFraction(Emits[i], i, n, prev1, p)
                    /\ Emits[n] = p
                    /\ \A i \in 1..n : Emits[i] # prev1
                    /\ \A i \in 1..n :
                          FLe(SqDist(IF i = 1 THEN prev1 ELSE Emits[i - 1], Emits[i]),
                              Sq(straight_sample_dist))]_vars

\* C20 witness: the third point (2,0) follows (0,0), (1,0) straight on; with
\* straight_sample_dist 0.2 the step has lined up five points, 0.2 apart, on
\* the segment of length 1.
C20_Witness ==
    /\ points = <<Pt(0, 0), Pt(1, 0), Pt(2, 0)>>
    /\ straight_sample_dist = Frac(1, 5)
    /\ pending = <<<<Frac(6, 5), FZero>>, <<Frac(7, 5), FZero>>, <<Frac(8, 5), FZero>>,
                   <<Frac(9, 5), FZero>>, Pt(2, 0)>>

\* C21: at a point whose turn angle is at least the threshold the step emits
\* exactly 2 x corner_density points: the first corner_density at i/corner_density
\* of the way from prev2 to prev1, ending at prev1 and leaving prev2 out, the
\* others at i/corner_density of the way from prev1 to the current point,
\* ending there and leaving prev1 out; afterwards the window is (prev1, current).
C21_CornerStep ==
    [][LET p == Current
            n == corner_density
        IN  (/\ YieldedOne /\ Yielded(p)
             /\ prev1 # None /\ prev2 # None
             /\ is_corner(prev2, prev1, p, angle_threshold_deg)) =>
                /\ Len(Emits) = 2 * n
                /\ \A i \in 1..n :
                      /\ IsFraction(Emits[i], i, n, prev2, prev1)
                      /\ prev1 # prev2 => Emits[i] # prev2
                      /\ IsFraction(Emits[n + i], i, n, prev1, p)
                      /\ p # prev1 => Emits[n + i] # prev1
                /\ n >= 1 => (Emits[n] = prev1 /\ Emits[2 * n] = p)
                /\ prev2' = prev1 /\ prev1' = p]_vars

\* C21 witness: the right-angle turn (0,0), (1,0), (1,1) with corner_density 4
\* has lined up four points on each of the two segments.
C21_Witness ==
    /\ points = <<Pt(0, 0), Pt(1, 0), Pt(1, 1)>>
    /\ corner_density = 4
    /\ prev2 = Pt(1, 0) /\ prev1 = Pt(1, 1)
    /\ pending = <<<<Frac(1, 4), FZero>>, <<Frac(1, 2), FZero>>, <<Frac(3, 4), FZero>>,
                   Pt(1, 0),
                   <<Frac(1, 1), Frac(1, 4)>>, <<Frac(1, 1), Frac(1, 2)>>,
                   <<Frac(1, 1), Frac(3, 4)>>, Pt(1, 1)>>

\* the points E are what the straight branch emits for the segment a -> p:
\* nothing for a segment of length zero, else the equally spaced points
StraightEmission(E, a, p) ==
    IF p = a THEN E = << >>
    ELSE /\ IsStepCount(Len(E), a, p, straight_sample_dist)
         /\ \A i \in 1..Len(E) : IsFraction(E[i], i, Len(E), a, p)
\* the step has a window vector of length zero
DegenerateStep(p) == prev1 # None /\ (p = prev1 \/ (prev2 # None /\ prev1 = prev2))

YieldedBatch == Len(batches') = Len(batches) + 1
Batch == batches'[Len(batches')]
\* the size of the collection after a loop iteration that brought it to n
SizeAfter(n) == IF n > 2 * max_points THEN (n + 1) \div 2 ELSE n

\* C23 as stated: after each batch has been added and the halving applied the
\* collection holds at most 2 x max_points points.
C23_GrowthGuard ==
    max_points >= 1 => \A i \in 1..Len(sizes) : sizes[i] <= 2 * max_points

\* C23 amended: the collection is halved once per batch, when the batch has
\* brought it above 2 x max_points, keeping the points at even indices (from
\* 0); brought to n points, it holds n afterwards when n <= 2 x max_points and
\* ceil(n / 2) otherwise, which exceeds 2 x max_points when n > 4 x max_points.
C23_HalvedOnce ==
    /\ [](Len(sizes) = Len(batches))
    /\ [](\A i \in 1..Len(sizes) :
            sizes[i] = SizeAfter((IF i = 1 THEN 0 ELSE sizes[i - 1]) + Len(batches[i])))
    /\ [][(YieldedBatch /\ pc' # "done") =>
            LET k1 == kept \o Batch
            IN  kept' = IF Len(k1) > 2 * max_points
                        THEN [i \in 1..((Len(k1) + 1) \div 2) |-> k1[2 * i - 1]]
                        ELSE k1]_vars

\* C23 witness: max_points = 1: a batch has brought the collection to five
\* points and the one halving has left three, more than 2 x max_points.
C23_Witness ==
    /\ max_points = 1
    /\ \E i \in 1..Len(sizes) : sizes[i] = 3 /\ i > 1 /\ sizes[i - 1] + Len(batches[i]) = 5

(***************************************************************************)
(* Properties of the batches as a whole                                    *)
(***************************************************************************)
\* the batches bs joined in order
RECURSIVE Joined(_)
Joined(bs) == IF bs = << >> THEN << >> ELSE Head(bs) \o Joined(Tail(bs))

\* C24: the batches yielded, joined in order with nothing dropped, are exactly
\* the sequence of points pushed (during the run: together with the buffer), so
\* every pushed point stands in exactly one batch; at a rotation the batch
\* yielded and the points retained split the buffer between them, the retained
\* points being the last ones and absent from the batch just yielded.
C24_Concatenation ==
    /\ [](pc = "done" => Joined(batches) = pushed)
    /\ [](pc # "done" => Joined(batches) \o batch = pushed)
    /\ [][(YieldedBatch /\ pc' # "done") =>
            /\ Batch \o batch' = Append(batch, Head(pending))
            /\ Len(batch') = (IF Len(batch) >= 1 THEN 2 ELSE 1)]_vars

\* C24 witness: a finished run with batch_size 3 whose five pushed points came
\* out in batches of 1, 1, 1 and 2 points.
C24_Witness ==
    /\ pc = "done" /\ batch_size = 3
    /\ Len(pushed) = 5 /\ Len(batches) = 4
    /\ Len(batches[1]) = 1 /\ Len(batches[4]) = 2
    /\ Joined(batches) = pushed

\* C25 as stated: every batch yielded is non-empty, for every batch_size >= 1.
C25_NonEmpty ==
    \A i \in 1..Len(batches) : batches[i] # << >>

\* C25 amended: every batch yielded is non-empty when batch_size >= 3; with
\* batch_size 1 or 2 a rotation of a buffer of at most two points yields an
\* empty batch; the final batch is never empty.
C25_NonEmptyFromThree ==
    /\ [](batch_size >= 3 => \A i \in 1..Len(batches) : batches[i] # << >>)
    /\ []((pc = "done" /\ batches # << >>) => batches[Len(batches)] # << >>)
    /\ [][(YieldedBatch /\ Batch = << >>) =>
            (pc' # "done" /\ Len(batch) + 1 <= 2 /\ batch_size <= 2)]_vars

\* C25 witness: batch_size 2: the second push rotated a buffer of two points
\* and yielded an empty batch; the finished run ends with a batch of two.
C25_Witness ==
    /\ pc = "done" /\ batch_size = 2
    /\ Len(batches) >= 3
    /\ batches[1] = << >> /\ batches[2] # << >>
    /\ Len(batches[Len(batches)]) = 2

\* C26: a motion line that carries E but none of X, Y, Z emits no sample and
\* still sets cur_e and the extruding flag from its E; a motion line without E
\* read right after it emits a sample carrying the flag the pure-E line
\* computed; G1 E5 then G1 X1 gives one sample, with extruding 1.
C26_PureEUpdates ==
    /\ [][\A raw \in Lines :
            (/\ Reads(raw) /\ IsMotionLine(raw)
             /\ Carries(raw, "E") /\ ~CarriesXYZ(raw)) =>
                /\ UNCHANGED rawVars
                /\ cur_e' = (IF e_absolute THEN Value(raw, "E")
                                           ELSE cur_e + Value(raw, "E"))
                /\ extruding_state' =
                      (IF e_absolute THEN (IF Value(raw, "E") > cur_e THEN 1 ELSE 0)
                                     ELSE (IF Value(raw, "E") > 0 THEN 1 ELSE 0))]_vars
    /\ [][\A raw \in Lines :
            (/\ Reads(raw) /\ IsMotionLine(raw)
             /\ CarriesXYZ(raw) /\ ~Carries(raw, "E")
             /\ file # << >> /\ IsMotionLine(LastLine)
             /\ Carries(LastLine, "E") /\ ~CarriesXYZ(LastLine)) =>
                /\ Emitted
                /\ es'[Len(es')] = extruding_state]_vars
    /\ [](StartsWith(file, <<L("G1", <<W("E", 5)>>), L("G1", <<W("X", 1)>>)>>)
            => (Len(es) >= 1 /\ es[1] = 1 /\ xs[1] = 1))
    /\ [](file = <<L("G1", <<W("E", 5)>>), L("G1", <<W("X", 1)>>)>>
            => Len(es) = 1)

\* C26 witness: G1 X1 emits extruding 0, G1 E5 emits nothing and raises the
\* flag, and the second G1 X1 emits extruding 1.
C26_Witness ==
    /\ file = <<L("G1", <<W("X", 1)>>), L("G1", <<W("E", 5)>>),
                L("G1", <<W("X", 1)>>)>>
    /\ es = <<0, 1>> /\ xs = <<1, 1>>
    /\ cur_e = 5 /\ extruding_state = 1

\* C27: a G92 line never changes cur_x, cur_y or the extruding flag, whatever
\* axis words it carries, and emits no sample; after a move to X5 Y5, the line
\* G92 X0 Y0 followed by G1 Z1 emits the sample (5, 5, 1).
C27_G92KeepsXY ==
    /\ [][\A raw \in BothLines :
            (Reads(raw) /\ raw.cmd = "G92") =>
                /\ cur_x' = cur_x /\ cur_y' = cur_y
                /\ extruding_state' = extruding_state
                /\ UNCHANGED rawVars]_vars
    /\ [](StartsWith(file, <<L("G1", <<W("X", 5), W("Y", 5)>>),
                             L("G92", <<W("X", 0), W("Y", 0)>>),
                             L("G1", <<W("Z", 1)>>)>>)
            => (/\ Len(xs) >= 2
                /\ <<xs[2], ys[2], zs[2], es[2]>> = <<5, 5, 1, 0>>))

\* C27 witness: the three lines of the example were read: the sample emitted
\* after G92 X0 Y0 is still at x = 5, y = 5.
C27_Witness ==
    /\ file = <<L("G1", <<W("X", 5), W("Y", 5)>>),
                L("G92", <<W("X", 0), W("Y", 0)>>),
                L("G1", <<W("Z", 1)>>)>>
    /\ xs = <<5, 5>> /\ ys = <<5, 5>> /\ zs = <<0, 1>>
    /\ cur_x = 5 /\ cur_y = 5

\* the positions start+1 .. start+n, the places a batch of n points takes in
\* the concatenated batches
Places(start, n) == [i \in 1..n |-> start + i]

\* the positions, in the concatenated batches bs, of the points the collector
\* holds after consuming bs, k being the positions held before
RECURSIVE KeptPlaces(_, _, _, _)
KeptPlaces(bs, k, start, maxp) ==
    IF bs = << >> THEN k
    ELSE KeptPlaces(Tail(bs), collect_batch(k, Places(start, Len(Head(bs))), maxp),
                    start + Len(Head(bs)), maxp)

\* the positions of the points held now: selected once more when the run is over
PlacesNow ==
    LET k == KeptPlaces(batches, << >>, 0, max_points)
    IN  IF pc = "done" THEN final_select(k, max_points) ELSE k

\* C28: the points the collector holds, and the sparse-mode output at the end,
\* are the points at strictly increasing positions of the concatenated batches,
\* and when there are any the first is the first point the resampler produced.
C28_Subsequence ==
    \E idx \in {PlacesNow} : \E all \in {Joined(batches)} :
        /\ Len(kept) = Len(idx)
        /\ \A j \in 1..Len(idx) :
              /\ idx[j] \in 1..Len(all)
              /\ kept[j] = all[idx[j]]
              /\ j > 1 => idx[j - 1] < idx[j]
        /\ kept # << >> => (idx[1] = 1 /\ kept[1] = pushed[1])
        /\ pc = "done" =>
              /\ Len(out_x) = Len(kept) /\ Len(out_y) = Len(kept)
              /\ \A j \in 1..Len(kept) : <<out_x[j], out_y[j]>> = kept[j]

\* C28 witness: a finished run with max_points 2 whose six or more points came
\* in three or more batches; two were selected, the first of all and a later one.
C28_Witness ==
    /\ pc = "done" /\ max_points = 2
    /\ Len(batches) >= 3 /\ total >= 6
    /\ Len(out_x) = 2
    /\ PlacesNow[1] = 1 /\ PlacesNow[2] > 2
    /\ <<out_x[1], out_y[1]>> = pushed[1]

\* the first position of v in s
FirstPlace(s, v) == CHOOSE i \in 1..Len(s) : s[i] = v /\ \A k \in 1..(i - 1) : s[k] # v

\* every element of s occurs in t
OccursIn(s, t) == \A i \in 1..Len(s) : \E j \in 1..Len(t) : t[j] = s[i]

\* the elements of s can be found in t at positions that never go back, from
\* position `from` on (two equal neighbours of s may share a position)
RECURSIVE IsCovered(_, _, _)
IsCovered(s, t, from) ==
    IF s = << >> THEN TRUE
    ELSE IF from > Len(t) THEN FALSE
    ELSE IF t[from] = Head(s) THEN IsCovered(Tail(s), t, from)
    ELSE IsCovered(s, t, from + 1)

\* no iteration of the resampler is under way
BetweenSteps == pc \in {"read", "done"}

\* C29 as stated: every input vertex occurs among the resampled points, and
\* the vertices first occur there in the order in which they first occur in the
\* input.
C29_FirstOccurrence ==
    BetweenSteps =>
        /\ OccursIn(points, pushed)
        /\ \A i, j \in 1..Len(points) :
              (/\ i < j
               /\ i = FirstPlace(points, points[i])
               /\ j = FirstPlace(points, points[j])) =>
                  FirstPlace(pushed, points[i]) < FirstPlace(pushed, points[j])

\* C29 amended: every input vertex occurs, with its exact coordinates, among
\* the resampled points: it is the last point pushed when its iteration ends
\* (a vertex equal to the one before it pushes nothing), so the vertices are
\* found in input order at positions that never go back; a vertex may occur
\* earlier as an interpolated point, before vertices that precede it.
C29_VertexKept ==
    BetweenSteps =>
        /\ points # << >> =>
              (pushed # << >> /\ pushed[Len(pushed)] = points[Len(points)])
        /\ OccursIn(points, pushed)
        /\ IsCovered(points, pushed, 1)
        /\ pc = "done" => OccursIn(points, Joined(batches))

\* C29 witness: the path (2,0), (0,0), (1,0) sampled every unit: the vertex
\* (1,0) was first pushed as the midpoint of the first segment, before the
\* vertex (0,0).
C29_Witness ==
    /\ pc = "done"
    /\ points = <<Pt(2, 0), Pt(0, 0), Pt(1, 0)>>
    /\ SubSeq(pushed, 1, 3) = <<Pt(2, 0), Pt(1, 0), Pt(0, 0)>>
    /\ pushed[Len(pushed)] = Pt(1, 0)
    /\ OccursIn(points, Joined(batches))

\* C30: each segment of the input path is emitted once and the stream advances
\* along the path: the points an iteration pushes for the vertex p lie on the
\* segment prev1 -> p, at the fractions 1/n .. n/n in that order, so prev1 is
\* not pushed again and no point falls back on prev2 -> prev1, at corners too.
C30_EmittedOnce ==
    [][LET p == Current
            n == Len(Emits)
        IN  (YieldedOne /\ Yielded(p) /\ prev1 # None) =>
                /\ \A i \in 1..n : IsFraction(Emits[i], i, n, prev1, p)
                /\ p # prev1 => \A i \in 1..n : Emits[i] # prev1]_vars

====
